---------------------------- MODULE Spec2Model ----------------------------
(***************************************************************************)
(* Model of twitchplays_retroarch/__init__.py: the TwitchPlaysRetroArchBot *)
(* message handler (event_message, process_twitchplays_commands), the      *)
(* hotkey toggle, the input queue, the ThreadPoolExecutor that runs        *)
(* input_queue_pop, and close().                                           *)
(*                                                                         *)
(* Strings that the program inspects (message texts, command-table keys)   *)
(* are sequences of one-character strings, so that str.casefold() and      *)
(* dictionary lookup are computed character by character.  Key names       *)
(* handed to the input emulator are opaque and stay TLA+ strings.          *)
(***************************************************************************)
EXTENDS Integers, Sequences, FiniteSets, TLC

(***************************************************************************)
(* Bounds of the model.                                                    *)
(***************************************************************************)
\* number of chat messages delivered to event_message in one run
MaxMsgs == 2
\* largest configured input_threads
MaxThreads == 2
\* largest configured keypress_duration / keypress_delay (time units)
MaxSleep == 2

(***************************************************************************)
(* Message texts and command tables.                                       *)
(***************************************************************************)
UpperCase == <<"A","B","C","D","E","F","G","H","I","J","K","L","M",
               "N","O","P","Q","R","S","T","U","V","W","X","Y","Z">>
LowerCase == <<"a","b","c","d","e","f","g","h","i","j","k","l","m",
               "n","o","p","q","r","s","t","u","v","w","x","y","z">>

\* str.casefold() of one ASCII character
CaseFoldChar(c) ==
    IF \E i \in 1..26 : UpperCase[i] = c
    THEN LowerCase[CHOOSE i \in 1..26 : UpperCase[i] = c]
    ELSE c

\* a casefold that changes nothing
casefold_identity(s) == s

\* str.casefold() of a string
casefold(s) == [i \in 1..Len(s) |-> CaseFoldChar(s[i])]

\* TwitchPlaysRetroArchBot.test_keys_fbneo
test_keys_fbneo ==
    (<<"u","p">> :> "up")
    @@ (<<"d","o","w","n">> :> "down")
    @@ (<<"l","e","f","t">> :> "left")
    @@ (<<"r","i","g","h","t">> :> "right")
    @@ (<<"b","u","t","t","o","n","1">> :> "z")
    @@ (<<"b","u","t","t","o","n","2">> :> "x")
    @@ (<<"s","t","a","r","t">> :> "enter")
    @@ (<<"C","O","I","N">> :> "shiftright")

\* a two-entry [keys] table of config.toml: {left = "left", start = "enter"}
small_keys ==
    (<<"l","e","f","t">> :> "left") @@ (<<"s","t","a","r","t">> :> "enter")

\* the [keys] tables a config.toml is drawn from
KeyTables == {test_keys_fbneo, small_keys}

\* message.content of the chat messages delivered to the bot
Messages ==
    { <<"L","E","F","T">>, <<"j","u","m","p">>, <<"S","t","a","r","t">>,
      <<"U","P">>, <<"u","p">>, <<"u">>, <<"u","p","p">>,
      <<"C","O","I","N">>, <<"c","o","i","n">> }

\* the messages of the spec's scenario: "LEFT", "jump", "Start"
ScenarioScript ==
    << {<<"L","E","F","T">>}, {<<"j","u","m","p">>}, {<<"S","t","a","r","t">>} >>

\* what the chat session delivers: per arrival, the texts the message may have
Scripts == { [i \in 1..MaxMsgs |-> Messages], ScenarioScript }

(***************************************************************************)
(* State.                                                                  *)
(***************************************************************************)
VARIABLES
    config,          \* the loaded config.toml (values only)
    script,          \* the chat session: the messages it delivers, in order
    twitchplays_commands_enabled,   \* self.twitchplays_commands_enabled
    input_queue,     \* self.input_queue: FIFO of [id, key]; id is the put number
    work_queue,      \* the executor's queue of work items (future number; 0 is None)
    shutdown,        \* the executor's _shutdown flag
    idle_semaphore,  \* the executor's count of workers that finished an item
    threads,         \* the executor's worker threads
    futures,         \* state of the future of every accepted submit()
    pcLoop,          \* where the event loop is
    message,         \* message.content of the message being handled
    ret,             \* outcome of process_twitchplays_commands for that message
    delivered,       \* number of messages delivered to event_message so far
    lookups,         \* number of times the command table was consulted
    puts,            \* every input_queue.put(), in order: [key, n]; n is the
                     \* arrival number of the message that caused it
    gets,            \* every input_queue.get() that returned, in order: [id, task]
    presses,         \* per put: number of keyDown and keyUp calls that returned
    at_shutdown,     \* what close() found: the ids still queued, all workers busy?
    toggles,         \* number of calls of twitchplays_commands_toggle, modulo 2
    dropped,         \* arrival numbers of the messages that found the switch false
    log              \* the log lines the worker threads wrote: [level, text]

vars == <<config, script, twitchplays_commands_enabled, input_queue, work_queue, shutdown,
          idle_semaphore, threads, futures, pcLoop, message, ret, delivered,
          lookups, puts, gets, presses, at_shutdown, toggles, dropped, log>>

loopVars == <<pcLoop, message, ret, delivered, lookups>>
poolVars == <<work_queue, shutdown, idle_semaphore, threads, futures>>
histVars == <<puts, gets, presses, at_shutdown>>

\* the configurations main() may load
Configs ==
    [ case_insensitive : BOOLEAN,
      input_threads : 1..MaxThreads,
      keypress_duration : 1..MaxSleep,
      keypress_delay : 1..MaxSleep,
      keys : KeyTables ]

(***************************************************************************)
(* main(): the keyword arguments of the bot's constructor, and __init__.   *)
(***************************************************************************)
case_insensitive == config.case_insensitive
max_workers == config.input_threads
keypress_duration == config.keypress_duration
keypress_delay == config.keypress_duration

\* a command table whose keys were case-folded when it was loaded
commandset_casefolded ==
    [k \in {casefold(x) : x \in DOMAIN config.keys} |->
        config.keys[CHOOSE x \in DOMAIN config.keys : casefold(x) = k]]

commandset == config.keys

Threads == 1..max_workers

\* the worker threads an executor could ever be asked to start
Slots == 1..MaxThreads

\* a worker thread that runs no work item
NoWork(pc) == [pc |-> pc, task |-> 0, item |-> 0, key |-> "", slept |-> 0]

Info(text) == [level |-> "INFO", text |-> text]

Init ==
    /\ config \in Configs
    /\ script \in Scripts
    /\ twitchplays_commands_enabled = TRUE
    /\ input_queue = <<>>
    /\ work_queue = <<>>
    /\ shutdown = FALSE
    /\ idle_semaphore = 0
    /\ threads = [w \in Slots |-> NoWork("unspawned")]
    /\ futures = <<>>
    /\ pcLoop = "idle"
    /\ message = <<>>
    /\ ret = "none"
    /\ delivered = 0
    /\ lookups = 0
    /\ puts = <<>>
    /\ gets = <<>>
    /\ presses = <<>>
    /\ at_shutdown = [queued |-> {}, busy |-> FALSE]
    /\ toggles = 0
    /\ dropped = {}
    /\ log = {}

\* a hotkey callback that also empties the queue when it switches the commands off
twitchplays_commands_toggle_clears ==
    /\ twitchplays_commands_enabled' = ~twitchplays_commands_enabled
    /\ toggles' = (toggles + 1) % 2
    /\ input_queue' = IF twitchplays_commands_enabled THEN <<>> ELSE input_queue
    /\ UNCHANGED <<config, script, dropped, poolVars, loopVars, histVars, log>>

\* a hotkey callback that switches the commands off, whatever the flag was
twitchplays_commands_disable ==
    /\ twitchplays_commands_enabled' = FALSE
    /\ toggles' = (toggles + 1) % 2
    /\ UNCHANGED <<config, script, dropped, input_queue, poolVars, loopVars, histVars, log>>

(***************************************************************************)
(* twitchplays_commands_toggle: the hotkey callback (its own thread).      *)
(***************************************************************************)
twitchplays_commands_toggle ==
    /\ twitchplays_commands_enabled' = ~twitchplays_commands_enabled
    /\ toggles' = (toggles + 1) % 2
    /\ UNCHANGED <<config, script, dropped, input_queue, poolVars, loopVars, histVars, log>>

\* a gate that lets every message through
GateIgnored == "process"

\* a gate that reads the switch the wrong way round
GateInverted == IF twitchplays_commands_enabled THEN "handle_commands" ELSE "process"

\* `if self.twitchplays_commands_enabled:` - where event_message goes next
Gate == IF twitchplays_commands_enabled THEN "process" ELSE "handle_commands"

(***************************************************************************)
(* event_message up to the call of process_twitchplays_commands.           *)
(***************************************************************************)
event_message(m, echo) ==
    /\ pcLoop = "idle"
    /\ delivered < Len(script)
    /\ m \in script[delivered + 1]
    /\ delivered' = delivered + 1
    /\ IF echo
       THEN UNCHANGED <<pcLoop, message, ret>>
       ELSE /\ message' = m
            /\ ret' = "none"
            /\ pcLoop' = Gate
    /\ dropped' = IF ~echo /\ ~twitchplays_commands_enabled
                  THEN dropped \cup {delivered + 1}
                  ELSE dropped
    /\ UNCHANGED <<config, script, toggles, twitchplays_commands_enabled, input_queue, poolVars,
                   lookups, histVars, log>>

\* a put that loses the item
QueuePutDrop(q, x) == q

\* a put that pushes at the front (a LIFO queue)
QueuePutFront(q, x) == <<x>> \o q

\* queue.Queue.put
QueuePut(q, x) == Append(q, x)

\* a get that leaves the item in the queue
QueueRestKeep(q) == q

\* queue.Queue.get on a non-empty queue: the item returned, and the queue left
QueueFront(q) == Head(q)
QueueRest(q) == Tail(q)

\* a normalization that folds the case whatever case_insensitive says
NormalizeAlways(content) == casefold(content)

\* the command after the optional casefold
Normalize(content) == IF case_insensitive THEN casefold(content) ELSE content

\* `command in commandset`
InCommandSet(command) == command \in DOMAIN commandset

\* a lookup that returns the key of some entry, whatever the command
KeyForAny(command) == commandset[CHOOSE k \in DOMAIN commandset : TRUE]

\* `key_to_press = commandset[command]`
KeyFor(command) == commandset[command]

(***************************************************************************)
(* process_twitchplays_commands up to and including input_queue.put.       *)
(***************************************************************************)
process_twitchplays_commands ==
    /\ pcLoop = "process"
    /\ lookups' = lookups + 1
    /\ LET command == Normalize(message) IN
       IF InCommandSet(command)
       THEN LET key_to_press == KeyFor(command) IN
            /\ input_queue' = QueuePut(input_queue, [id |-> Len(puts) + 1, key |-> key_to_press])
            /\ puts' = Append(puts, [key |-> key_to_press, n |-> delivered])
            /\ presses' = Append(presses, [down |-> 0, up |-> 0])
            /\ pcLoop' = "submit"
            /\ UNCHANGED ret
       ELSE /\ ret' = "False"
            /\ pcLoop' = "handle_commands"
            /\ UNCHANGED <<input_queue, puts, presses>>
    /\ UNCHANGED <<config, script, toggles, dropped, twitchplays_commands_enabled, poolVars, message,
                   delivered, gets, log, at_shutdown>>

\* an executor that counts only the threads that are waiting for work
NumThreadsWaiting == Cardinality({w \in Slots : threads[w].pc = "idle"})

\* number of worker threads the executor has started
NumThreads == Cardinality({w \in Slots : threads[w].pc # "unspawned"})

\* ThreadPoolExecutor._adjust_thread_count: reuse an idle worker or start one
AdjustThreadCount ==
    IF idle_semaphore > 0
    THEN /\ idle_semaphore' = idle_semaphore - 1
         /\ UNCHANGED threads
    ELSE /\ UNCHANGED idle_semaphore
         /\ IF NumThreads < max_workers
            THEN LET w == CHOOSE v \in Slots :
                              /\ threads[v].pc = "unspawned"
                              /\ \A u \in Slots : threads[u].pc = "unspawned" => v <= u
                 IN threads' = [threads EXCEPT ![w].pc = "idle"]
            ELSE UNCHANGED threads

\* a submit() that waits for a worker without a work item
SubmitReadyWhenWorkerFree ==
    /\ pcLoop = "submit"
    /\ \E w \in Threads : threads[w].pc \in {"unspawned", "idle"}

\* submit() is called right after put() and returns without waiting
SubmitReady == pcLoop = "submit"

\* a submit() that accepts work whether or not the executor was shut down
submit_always_accepts ==
    /\ SubmitReady
    /\ futures' = Append(futures, "PENDING")
    /\ work_queue' = Append(work_queue, Len(futures) + 1)
    /\ AdjustThreadCount
    /\ ret' = "True"
    /\ pcLoop' = "handle_commands"
    /\ UNCHANGED <<config, script, toggles, dropped, twitchplays_commands_enabled, input_queue,
                   shutdown, message, delivered, lookups, histVars, log>>

(***************************************************************************)
(* self.input_thread_pool.submit(self.input_queue_pop) and the return.     *)
(***************************************************************************)
submit ==
    /\ SubmitReady
    /\ IF shutdown
       THEN \* RuntimeError: cannot schedule new futures after shutdown
            /\ ret' = "RuntimeError"
            /\ pcLoop' = "raised"
            /\ UNCHANGED <<work_queue, idle_semaphore, threads, futures>>
       ELSE /\ futures' = Append(futures, "PENDING")
            /\ work_queue' = Append(work_queue, Len(futures) + 1)
            /\ AdjustThreadCount
            /\ ret' = "True"
            /\ pcLoop' = "handle_commands"
    /\ UNCHANGED <<config, script, toggles, dropped, twitchplays_commands_enabled, input_queue, shutdown,
                   message, delivered, lookups, histVars, log>>

\* await self.handle_commands(message): the end of event_message
handle_commands ==
    /\ pcLoop = "handle_commands"
    /\ pcLoop' = "idle"
    /\ message' = <<>>
    /\ ret' = "none"
    /\ UNCHANGED <<config, script, toggles, dropped, twitchplays_commands_enabled, input_queue, poolVars,
                   delivered, lookups, histVars, log>>

\* the RuntimeError of submit() leaves event_message, skipping handle_commands
event_message_raises ==
    /\ pcLoop = "raised"
    /\ pcLoop' = "idle"
    /\ message' = <<>>
    /\ ret' = "none"
    /\ UNCHANGED <<config, script, toggles, dropped, twitchplays_commands_enabled, input_queue, poolVars,
                   delivered, lookups, histVars, log>>

(***************************************************************************)
(* close(): ThreadPoolExecutor.shutdown(wait=True) on the event loop.      *)
(* The flag is set and None is queued behind the pending work items; the   *)
(* call then joins every worker thread before close() goes on.             *)
(***************************************************************************)
\* a shutdown that cancels the pending work items
ShutdownQueueCancel(wq) == <<0>>

\* shutdown(wait=True) with cancel_futures left False: pending items stay queued
ShutdownQueue(wq) == Append(wq, 0)

\* every worker of the pool is running a work item
AllBusy ==
    \A w \in Threads : threads[w].pc \notin {"unspawned", "idle", "exited"}

close ==
    /\ pcLoop = "idle"
    /\ ~shutdown
    /\ shutdown' = TRUE
    /\ work_queue' = ShutdownQueue(work_queue)
    /\ pcLoop' = "shutdown"
    /\ at_shutdown' = [queued |-> {input_queue[i].id : i \in 1..Len(input_queue)},
                       busy |-> AllBusy]
    /\ UNCHANGED <<config, script, toggles, dropped, twitchplays_commands_enabled, input_queue, idle_semaphore,
                   threads, futures, message, ret, delivered, lookups,
                   puts, gets, presses, log>>

\* a shutdown(wait=False): nothing is joined
AllJoinedNoWait == TRUE

\* every started worker thread has ended: what thread.join() waits for
AllJoined == \A w \in Threads : threads[w].pc \in {"unspawned", "exited"}

\* shutdown() returns and close() goes on to super().close()
shutdown_return ==
    /\ pcLoop = "shutdown"
    /\ AllJoined
    /\ pcLoop' = "idle"
    /\ UNCHANGED <<config, script, toggles, dropped, twitchplays_commands_enabled, input_queue, poolVars,
                   message, ret, delivered, lookups, histVars, log>>

(***************************************************************************)
(* concurrent.futures.thread._worker: the loop of one worker thread.       *)
(***************************************************************************)
\* work_queue.get() returns a work item: run it
worker_run(w) ==
    /\ threads[w].pc = "idle"
    /\ work_queue # <<>>
    /\ Head(work_queue) # 0
    /\ work_queue' = Tail(work_queue)
    /\ futures' = [futures EXCEPT ![Head(work_queue)] = "RUNNING"]
    /\ threads' = [threads EXCEPT ![w].pc = "get", ![w].task = Head(work_queue)]
    /\ UNCHANGED <<config, script, toggles, dropped, twitchplays_commands_enabled, input_queue, shutdown,
                   idle_semaphore, loopVars, histVars, log>>

\* work_queue.get() returns None after shutdown: pass it on and end the thread
worker_exit(w) ==
    /\ threads[w].pc = "idle"
    /\ work_queue # <<>>
    /\ Head(work_queue) = 0
    /\ shutdown
    /\ work_queue' = Append(Tail(work_queue), 0)
    /\ threads' = [threads EXCEPT ![w].pc = "exited"]
    /\ UNCHANGED <<config, script, toggles, dropped, twitchplays_commands_enabled, input_queue, shutdown,
                   idle_semaphore, futures, loopVars, histVars, log>>

\* a worker thread that ends after its first work item
worker_release_exits(w) ==
    /\ threads[w].pc = "release"
    /\ idle_semaphore' = idle_semaphore + 1
    /\ threads' = [threads EXCEPT ![w] = NoWork("exited")]
    /\ UNCHANGED <<config, script, toggles, dropped, twitchplays_commands_enabled, input_queue, work_queue,
                   shutdown, futures, loopVars, histVars, log>>

\* the work item is over: release the idle semaphore, wait for the next item
worker_release(w) ==
    /\ threads[w].pc = "release"
    /\ idle_semaphore' = idle_semaphore + 1
    /\ threads' = [threads EXCEPT ![w] = NoWork("idle")]
    /\ UNCHANGED <<config, script, toggles, dropped, twitchplays_commands_enabled, input_queue, work_queue,
                   shutdown, futures, loopVars, histVars, log>>

\* an exception leaves input_queue_pop: the work item stores it in its future
WorkItemRaises(w) ==
    /\ threads' = [threads EXCEPT ![w].pc = "release"]
    /\ futures' = [futures EXCEPT ![threads[w].task] = "EXCEPTION"]

(***************************************************************************)
(* input_queue_pop, statement by statement.                                *)
(***************************************************************************)
\* key_to_press = self.input_queue.get()  (blocks while the queue is empty)
input_queue_get(w) ==
    /\ threads[w].pc = "get"
    /\ input_queue # <<>>
    /\ LET got == QueueFront(input_queue) IN
       /\ input_queue' = QueueRest(input_queue)
       /\ gets' = Append(gets, [id |-> got.id, task |-> threads[w].task])
       /\ threads' = [threads EXCEPT ![w].pc = "keyDown", ![w].item = got.id,
                                     ![w].key = got.key]
    /\ log' = log \cup {Info("Handling one input from queue."), Info("Executing input")}
    /\ UNCHANGED <<config, script, toggles, dropped, twitchplays_commands_enabled, work_queue, shutdown,
                   idle_semaphore, futures, loopVars, puts, presses, at_shutdown>>

\* input_emulator.keyDown(key_to_press) returns
keyDown(w) ==
    /\ threads[w].pc = "keyDown"
    /\ presses' = [presses EXCEPT ![threads[w].item].down = @ + 1]
    /\ threads' = [threads EXCEPT ![w].pc = "sleep_duration"]
    /\ UNCHANGED <<config, script, toggles, dropped, twitchplays_commands_enabled, input_queue, work_queue,
                   shutdown, idle_semaphore, futures, loopVars, puts, gets, log, at_shutdown>>

\* a keyDown whose exception is swallowed: the worker goes on to the hold
keyDown_raises_swallowed(w) ==
    /\ threads[w].pc = "keyDown"
    /\ threads' = [threads EXCEPT ![w].pc = "sleep_duration"]
    /\ UNCHANGED <<config, script, toggles, dropped, twitchplays_commands_enabled, input_queue,
                   work_queue, shutdown, idle_semaphore, futures, loopVars, histVars, log>>

\* input_emulator.keyDown(key_to_press) raises
keyDown_raises(w) ==
    /\ threads[w].pc = "keyDown"
    /\ WorkItemRaises(w)
    /\ UNCHANGED <<config, script, toggles, dropped, twitchplays_commands_enabled, input_queue, work_queue,
                   shutdown, idle_semaphore, loopVars, histVars, log>>

\* time.sleep(self.keypress_duration)
sleep_duration(w) ==
    /\ threads[w].pc = "sleep_duration"
    /\ threads' = [threads EXCEPT ![w].pc = "keyUp",
                                  ![w].slept = @ + keypress_duration]
    /\ UNCHANGED <<config, script, toggles, dropped, twitchplays_commands_enabled, input_queue, work_queue,
                   shutdown, idle_semaphore, futures, loopVars, histVars, log>>

\* input_emulator.keyUp(key_to_press) returns
keyUp(w) ==
    /\ threads[w].pc = "keyUp"
    /\ presses' = [presses EXCEPT ![threads[w].item].up = @ + 1]
    /\ threads' = [threads EXCEPT ![w].pc = "sleep_delay"]
    /\ UNCHANGED <<config, script, toggles, dropped, twitchplays_commands_enabled, input_queue, work_queue,
                   shutdown, idle_semaphore, futures, loopVars, puts, gets, log, at_shutdown>>

\* input_emulator.keyUp(key_to_press) raises
keyUp_raises(w) ==
    /\ threads[w].pc = "keyUp"
    /\ WorkItemRaises(w)
    /\ UNCHANGED <<config, script, toggles, dropped, twitchplays_commands_enabled, input_queue, work_queue,
                   shutdown, idle_semaphore, loopVars, histVars, log>>

\* time.sleep(self.keypress_delay), and input_queue_pop returns
sleep_delay(w) ==
    /\ threads[w].pc = "sleep_delay"
    /\ threads' = [threads EXCEPT ![w].pc = "release",
                                  ![w].slept = @ + keypress_delay]
    /\ futures' = [futures EXCEPT ![threads[w].task] = "FINISHED"]
    /\ UNCHANGED <<config, script, toggles, dropped, twitchplays_commands_enabled, input_queue, work_queue,
                   shutdown, idle_semaphore, loopVars, histVars, log>>

(***************************************************************************)
(* The program.                                                            *)
(***************************************************************************)
MessageStep ==
    \/ \E m \in Messages, echo \in BOOLEAN : event_message(m, echo)
    \/ process_twitchplays_commands
    \/ submit
    \/ handle_commands
    \/ event_message_raises

LoopStep ==
    \/ MessageStep
    \/ close
    \/ shutdown_return

WorkerStep(w) ==
    \/ worker_run(w)
    \/ worker_exit(w)
    \/ worker_release(w)
    \/ input_queue_get(w)
    \/ keyDown(w)
    \/ sleep_duration(w)
    \/ keyUp(w)
    \/ sleep_delay(w)

WorkerFails(w) ==
    \/ keyDown_raises(w)
    \/ keyUp_raises(w)

Next ==
    \/ LoopStep
    \/ twitchplays_commands_toggle
    \/ \E w \in Slots : WorkerStep(w)
    \/ \E w \in Slots : WorkerFails(w)

Spec == Init /\ [][Next]_vars

(***************************************************************************)
(* The program when the input emulator never raises, one configuration,    *)
(* under fair scheduling: a worker thread that can take a step takes one,  *)
(* and the event loop finishes the handler or the close() it is in.        *)
(* Messages, the hotkey and close() come when they come.                   *)
(***************************************************************************)
InitFair ==
    /\ Init
    /\ config.case_insensitive
    /\ config.keys = test_keys_fbneo
    /\ config.keypress_duration = 1
    /\ config.keypress_delay = 1
    /\ script = [i \in 1..MaxMsgs |-> Messages]

NextNoFail ==
    \/ LoopStep
    \/ twitchplays_commands_toggle
    \/ \E w \in Slots : WorkerStep(w)

Fairness ==
    /\ \A w \in 1..MaxThreads : WF_vars(w \in Threads /\ WorkerStep(w))
    /\ WF_vars(process_twitchplays_commands \/ submit \/ handle_commands
                  \/ event_message_raises \/ shutdown_return)

FairSpec == InitFair /\ [][NextNoFail]_vars /\ Fairness

(***************************************************************************)
(* Vocabulary of the properties.                                           *)
(***************************************************************************)
QueuedIds == {input_queue[i].id : i \in 1..Len(input_queue)}
GotIds == {gets[j].id : j \in 1..Len(gets)}
CompletedPairs ==
    Cardinality({i \in 1..Len(puts) : presses[i].down = 1 /\ presses[i].up = 1})
FailedTasks == {t \in 1..Len(futures) : futures[t] = "EXCEPTION"}

\* no message is being handled, no work item is queued or running
Quiescent ==
    /\ pcLoop = "idle"
    /\ \A w \in Threads : threads[w].pc \in {"unspawned", "idle", "exited"}
    /\ \A i \in 1..Len(work_queue) : work_queue[i] = 0

\* the lookup of the message being handled found / did not find a command
LookupDone == pcLoop = "submit" \/ (pcLoop \in {"handle_commands", "raised"} /\ ret # "none")
Matched == pcLoop = "submit" \/ ret \in {"True", "RuntimeError"}

\* never dequeued twice, never pressed twice, nothing lost from the queue
AtMostOnce ==
    /\ \A j, k \in 1..Len(gets) :
          j # k => gets[j].id # gets[k].id /\ gets[j].task # gets[k].task
    /\ Cardinality(QueuedIds) = Len(input_queue)
    /\ GotIds \cap QueuedIds = {}
    /\ GotIds \cup QueuedIds = 1..Len(puts)
    /\ \A i \in 1..Len(puts) :
          /\ presses[i].down <= 1
          /\ presses[i].up <= presses[i].down
          /\ presses[i].down = 1 => i \in GotIds
    /\ CompletedPairs <= Len(puts)

(***************************************************************************)
(* C1 as stated: each action put on the queue is dequeued by exactly one   *)
(* worker task, exactly once, is pressed at most once, and when all work   *)
(* has finished the N actions enqueued have produced exactly N completed   *)
(* keyDown/keyUp pairs.                                                    *)
(***************************************************************************)
C1_AllEnqueuedCompleted ==
    /\ AtMostOnce
    /\ Quiescent => GotIds = 1..Len(puts) /\ CompletedPairs = Len(puts)

(***************************************************************************)
(* C1 amended: each action put on the queue is dequeued at most once, by   *)
(* at most one worker task, and pressed at most once; when all work has    *)
(* finished, exactly the actions whose submit() was accepted have been     *)
(* dequeued, each once, and the completed keyDown/keyUp pairs number the   *)
(* accepted submissions less the work items in which a press raised.       *)
(***************************************************************************)
C1_ExactlyOnce ==
    /\ AtMostOnce
    /\ Quiescent =>
          /\ GotIds = 1..Len(futures)
          /\ Len(gets) = Len(futures)
          /\ CompletedPairs = Len(futures) - Cardinality(FailedTasks)

\* two workers, two actions, each completed, the second task took the first action
C1_Witness ==
    /\ Quiescent
    /\ max_workers = 2
    /\ Len(puts) = 2
    /\ CompletedPairs = 2
    /\ gets[1] = [id |-> 1, task |-> 2]

(***************************************************************************)
(* C2: a message handled while the switch is false is dropped, whatever    *)
(* its text: the table is not consulted, nothing is put on the queue and   *)
(* no work item is submitted, up to the end of its handling.               *)
(***************************************************************************)
C2_GateWhenDisabled ==
    [][ /\ (pcLoop = "idle" /\ message' # message /\ ~twitchplays_commands_enabled)
           => /\ pcLoop' = "handle_commands"
              /\ ret' = "none"
              /\ UNCHANGED <<lookups, input_queue, puts, work_queue, futures,
                             threads, idle_semaphore>>
        /\ (pcLoop = "handle_commands" /\ ret = "none")
           => /\ pcLoop' \in {"handle_commands", "idle"}
              /\ UNCHANGED <<lookups, puts>>
              /\ Len(futures') = Len(futures) ]_vars

\* a message that matches the table is being dropped
C2_Witness ==
    /\ pcLoop = "handle_commands"
    /\ ret = "none"
    /\ ~twitchplays_commands_enabled
    /\ InCommandSet(Normalize(message))
    /\ puts = <<>>

C4_QueuedWorkDiscarded ==
    at_shutdown.busy => \A i \in at_shutdown.queued : presses[i].down = 0

\* close() is over: shutdown() has returned
Closed == shutdown /\ pcLoop # "shutdown"

\* work items a worker has yet to start or that have yet to call get()
WaitingTasks ==
    Cardinality({i \in 1..Len(work_queue) : work_queue[i] # 0})
    + Cardinality({w \in Threads : threads[w].pc = "get"})

(***************************************************************************)
(* C4 amended: the actions still queued when close() shuts the pool down   *)
(* are not discarded.  Their work items stay in the pool, so each of them  *)
(* keeps a work item that will dequeue it, and shutdown() does not return  *)
(* before each has been dequeued and its key sequence has run: completed,  *)
(* unless a press raised.                                                  *)
(***************************************************************************)
C4_QueuedWorkSurvivesShutdown ==
    /\ shutdown =>
          Cardinality(at_shutdown.queued \cap QueuedIds) <= WaitingTasks
    /\ Closed =>
          \A i \in at_shutdown.queued :
             /\ i \in GotIds
             /\ \/ presses[i] = [down |-> 1, up |-> 1]
                \/ \E j \in 1..Len(gets) :
                      gets[j].id = i /\ futures[gets[j].task] = "EXCEPTION"

\* close() has returned; an action was queued behind busy workers and got pressed
C4_Witness ==
    /\ Closed
    /\ at_shutdown.busy
    /\ at_shutdown.queued # {}
    /\ \A i \in at_shutdown.queued : presses[i] = [down |-> 1, up |-> 1]

\* action i was pressed down and released
PairDone(i) == Len(presses) >= i /\ presses[i] = [down |-> 1, up |-> 1]

\* the numbers a put can have
PutIds == 1..(MaxMsgs + Len(ScenarioScript))

ProblemLevels == {"WARNING", "ERROR", "CRITICAL"}

(***************************************************************************)
(* C6: a keyDown or keyUp that fails is reported (logged); the failure     *)
(* stays out of the message path and stops neither the process nor the     *)
(* pool, the worker takes further work items, and the actions enqueued     *)
(* around it are still executed.                                           *)
(***************************************************************************)
C6_FailureReportedAndLocal ==
    /\ \A t \in FailedTasks : \E line \in log : line.level \in ProblemLevels
    /\ pcLoop = "raised" => shutdown
    /\ ~shutdown => \A w \in Threads : threads[w].pc # "exited"
    /\ Quiescent => GotIds = 1..Len(futures)

(***************************************************************************)
(* C7: a worker that executes one action holds the key for the configured  *)
(* keypress_duration and, after keyUp, stays unavailable for the           *)
(* configured keypress_delay: the cycle lasts at least their sum and the   *)
(* hold after the release is the configured keypress_delay.                *)
(***************************************************************************)
C7_CycleTiming ==
    \A w \in Threads :
       /\ threads[w].pc = "sleep_delay" =>
             threads[w].slept = config.keypress_duration
       /\ (threads[w].pc = "release" /\ futures[threads[w].task] = "FINISHED") =>
             /\ threads[w].slept >= config.keypress_duration + config.keypress_delay
             /\ threads[w].slept - config.keypress_duration = config.keypress_delay

(***************************************************************************)
(* C8 as stated: no step of the event loop is enabled only once a worker   *)
(* has finished its key sequence: whatever the loop has begun, its next    *)
(* step can be taken while a worker is in the middle of a hold.            *)
(***************************************************************************)
C8_LoopNeverWaitsForWorkers ==
    (pcLoop # "idle" /\ \E w \in Threads : threads[w].pc = "sleep_duration")
    => ENABLED LoopStep

(***************************************************************************)
(* C8 amended: handling a message never waits for key emulation: in every  *)
(* state of the workers the next step of event_message can be taken, and a *)
(* message that is due can be received.  The one step of the event loop    *)
(* that waits for the workers is the return of shutdown() inside close(),  *)
(* which blocks the loop until every worker thread has ended.              *)
(***************************************************************************)
C8_MessagePathNeverWaits ==
    /\ pcLoop \in {"process", "submit", "handle_commands", "raised"}
          => ENABLED MessageStep
    /\ (pcLoop = "idle" /\ delivered < Len(script)) => ENABLED MessageStep
    /\ (pcLoop # "idle" /\ ~ENABLED LoopStep) => (pcLoop = "shutdown" /\ ~AllJoined)

\* handle returned true while every worker was in a hold and a work item waited
C8_Witness ==
    /\ pcLoop = "handle_commands"
    /\ ret = "True"
    /\ \A w \in Threads : threads[w].pc = "sleep_duration"
    /\ \E i \in 1..Len(work_queue) : work_queue[i] # 0

(***************************************************************************)
(* C9: actions are put on the queue in the order in which their matching   *)
(* messages were handled, and workers dequeue them in that order; in the   *)
(* scenario (LEFT, jump, Start with {left: left, start: enter}) only the   *)
(* first message queues "left" and only the third queues "enter".          *)
(***************************************************************************)
C9_FIFO ==
    /\ \A i, j \in 1..Len(puts) : i < j => puts[i].n < puts[j].n
    /\ \A j \in 1..Len(gets) : gets[j].id = j
    /\ \A k \in 1..Len(input_queue) :
          /\ Len(gets) + k <= Len(puts)
          /\ input_queue[k] = [id |-> Len(gets) + k, key |-> puts[Len(gets) + k].key]
    /\ \A w \in Threads :
          threads[w].item # 0 => threads[w].key = puts[threads[w].item].key
    /\ (script = ScenarioScript /\ commandset = small_keys /\ case_insensitive) =>
          \A i \in 1..Len(puts) :
             \/ puts[i] = [key |-> "left", n |-> 1]
             \/ puts[i] = [key |-> "enter", n |-> 3]

\* the scenario ran to its end with one worker: left then enter, queued and dequeued
C9_Witness ==
    /\ script = ScenarioScript
    /\ commandset = small_keys
    /\ case_insensitive
    /\ max_workers = 1
    /\ lookups = 3
    /\ puts = <<[key |-> "left", n |-> 1], [key |-> "enter", n |-> 3]>>
    /\ gets = <<[id |-> 1, task |-> 1], [id |-> 2, task |-> 2]>>
    /\ presses[2].down = 1

\* the same letter, whatever the case
SameLetter(a, b) ==
    a = b \/ \E i \in 1..26 : {a, b} = {UpperCase[i], LowerCase[i]}

(***************************************************************************)
(* C10: the lookup is exact equality after normalization.  With            *)
(* case_insensitive true, "UP" and "up" both match the entry keyed "up";   *)
(* with case_insensitive false only the message identical to a key         *)
(* matches; in neither mode does a prefix or an extension of a key match.  *)
(***************************************************************************)
C10_CaseHandling ==
    LookupDone =>
       /\ (case_insensitive /\ message \in {<<"U","P">>, <<"u","p">>}
             /\ <<"u","p">> \in DOMAIN commandset)
          => (Matched /\ puts[Len(puts)].key = commandset[<<"u","p">>])
       /\ ~case_insensitive => (Matched <=> message \in DOMAIN commandset)
       /\ Matched =>
             \E k \in DOMAIN commandset :
                /\ Len(k) = Len(message)
                /\ \A i \in 1..Len(k) : SameLetter(k[i], message[i])
       /\ message \in {<<"u">>, <<"u","p","p">>} => ~Matched

\* "UP" matched the entry keyed "up"
C10_Witness ==
    /\ case_insensitive
    /\ message = <<"U","P">>
    /\ pcLoop = "submit"
    /\ puts[Len(puts)].key = "up"

\* some work item that dequeued action i ended with an exception
RaisedFor(i) ==
    \E j \in 1..Len(gets) : gets[j].id = i /\ futures[gets[j].task] = "EXCEPTION"

\* close() has returned from shutdown()
ShutdownReturned == shutdown /\ pcLoop # "shutdown"

(***************************************************************************)
(* C11 as stated: once keyDown has been performed for an action the worker *)
(* always goes on to keyUp for the same action and then its delay, also    *)
(* when shutdown is requested in between: a key that is down has a worker  *)
(* on its way to keyUp, a sequence ends only after keyUp and the delay,    *)
(* and close() does not return before every worker has ended.              *)
(***************************************************************************)
C11_SequenceNeverCutShort ==
    /\ \A i \in 1..Len(puts) :
          (presses[i].down = 1 /\ presses[i].up = 0) =>
             \E w \in Threads : /\ threads[w].item = i
                                /\ threads[w].pc \in {"sleep_duration", "keyUp"}
    /\ \A w \in Threads :
          (threads[w].pc = "release" /\ presses[threads[w].item].down = 1) =>
             /\ presses[threads[w].item].up = 1
             /\ threads[w].slept = keypress_duration + keypress_delay
    /\ ShutdownReturned => \A w \in Threads : threads[w].pc \in {"unspawned", "exited"}

(***************************************************************************)
(* C11 amended: shutdown never cuts a key sequence short.  Once keyDown    *)
(* has returned for an action the worker sleeps and calls keyUp for the    *)
(* same action, also when shutdown is requested in between, and close()    *)
(* does not return before every worker has ended.  The sequence ends       *)
(* early in one case only: keyUp itself raises; then the delay is skipped  *)
(* and the key has had no successful keyUp.                                *)
(***************************************************************************)
C11_OnlyFailureCutsSequence ==
    /\ \A i \in 1..Len(puts) :
          (presses[i].down = 1 /\ presses[i].up = 0) =>
             \/ \E w \in Threads : /\ threads[w].item = i
                                   /\ threads[w].pc \in {"sleep_duration", "keyUp"}
             \/ RaisedFor(i)
    /\ \A w \in Threads :
          (threads[w].pc = "release" /\ presses[threads[w].item].down = 1) =>
             \/ /\ presses[threads[w].item].up = 1
                /\ threads[w].slept = keypress_duration + keypress_delay
                /\ futures[threads[w].task] = "FINISHED"
             \/ /\ presses[threads[w].item].up = 0
                /\ threads[w].slept = keypress_duration
                /\ futures[threads[w].task] = "EXCEPTION"
    /\ ShutdownReturned => \A w \in Threads : threads[w].pc \in {"unspawned", "exited"}

\* close() is waiting in shutdown() while a worker that was busy when it was
\* called has released the key and is in its delay
C11_Witness ==
    /\ pcLoop = "shutdown"
    /\ at_shutdown.busy
    /\ at_shutdown.queued = {}
    /\ Len(puts) = 1
    /\ \E w \in Threads : /\ threads[w].pc = "sleep_delay"
                          /\ presses[threads[w].item] = [down |-> 1, up |-> 1]

(***************************************************************************)
(* C12: a message that finds the switch false is dropped even though it    *)
(* matches the table, and it is not buffered: whatever the switch does     *)
(* afterwards, no action is ever queued for a message that arrived while   *)
(* the switch was false.                                                   *)
(***************************************************************************)
C12_DroppedNeverQueued ==
    /\ \A i \in 1..Len(puts) : puts[i].n \notin dropped
    /\ Len(puts) <= delivered - Cardinality(dropped)
    /\ (delivered \in dropped /\ pcLoop \in {"process", "submit", "handle_commands", "raised"})
          => (pcLoop = "handle_commands" /\ ret = "none")

\* message 1 was queued, message 2 matches and arrived while the switch was
\* false, and the switch is true again: nothing was queued for message 2
C12_Witness ==
    /\ pcLoop = "handle_commands"
    /\ delivered = 2
    /\ dropped = {2}
    /\ InCommandSet(Normalize(message))
    /\ twitchplays_commands_enabled
    /\ Len(puts) = 1
    /\ puts[1].n = 1

\* the lookup of the message being handled is a miss
LookupMisses ==
    /\ pcLoop = "process"
    /\ (IF case_insensitive THEN casefold(message) ELSE message) \notin DOMAIN commandset

(***************************************************************************)
(* C13: for every message whose normalized text is not a key of the table, *)
(* process_twitchplays_commands returns False and leaves the dispatch      *)
(* queue, the submitted worker tasks and the switch unchanged.             *)
(***************************************************************************)
C13_LookupMissNoEffect ==
    [][ (LookupMisses /\ pcLoop' # "process") =>
           /\ ret' = "False"
           /\ pcLoop' = "handle_commands"
           /\ UNCHANGED <<input_queue, work_queue, futures, threads, shutdown,
                          twitchplays_commands_enabled, puts, presses>> ]_vars

\* "jump" has just missed while an action was waiting in the queue
C13_Witness ==
    /\ pcLoop = "handle_commands"
    /\ ret = "False"
    /\ message = <<"j","u","m","p">>
    /\ input_queue # <<>>
    /\ Len(futures) = 1

(***************************************************************************)
(* C14: the flag starts true, is always exactly true or false, every       *)
(* toggle negates it and two consecutive toggles give back the value it    *)
(* had: it is true exactly after an even number of toggles, also while a   *)
(* message that read it is being handled.                                  *)
(***************************************************************************)
C14_ToggleFlips ==
    /\ twitchplays_commands_enabled \in BOOLEAN
    /\ twitchplays_commands_enabled <=> (toggles = 0)

\* the flag was toggled off while a message that had read it as true was in
\* process_twitchplays_commands
C14_Witness ==
    /\ pcLoop = "process"
    /\ toggles = 1
    /\ twitchplays_commands_enabled = FALSE

\* submitted worker tasks that have not dequeued yet: waiting in the pool or
\* running and about to call input_queue.get()
NotYetDequeued ==
    Cardinality({i \in 1..Len(work_queue) : work_queue[i] # 0})
    + Cardinality({w \in Threads : threads[w].pc = "get"})

(***************************************************************************)
(* C15: the dispatch queue always holds at least as many items as there    *)
(* are submitted worker tasks that have not dequeued yet, so the get() of  *)
(* a running worker task never finds the queue empty.                      *)
(***************************************************************************)
C15_WorkerNeverFindsQueueEmpty ==
    /\ Len(input_queue) >= NotYetDequeued
    /\ \A w \in Threads : threads[w].pc = "get" => ENABLED input_queue_get(w)

\* two worker tasks are about to dequeue and the queue holds exactly two items
C15_Witness ==
    /\ max_workers = 2
    /\ \A w \in Threads : threads[w].pc = "get"
    /\ Len(input_queue) = 2
    /\ NotYetDequeued = 2

\* key sequences in progress: dequeued, and the delay after keyUp not over
InProgress ==
    Cardinality({w \in Slots : threads[w].pc \in {"keyDown", "sleep_duration",
                                                   "keyUp", "sleep_delay"}})

\* action i has been dequeued and no worker is still busy with it
SequenceOver(i) == i \in GotIds /\ \A w \in Slots : threads[w].item # i

(***************************************************************************)
(* C16 as stated: at most input_threads key sequences are in progress;     *)
(* with input_threads = 1 each keyDown is followed by the keyUp of the     *)
(* same action and its delay before the next keyDown, and the keyDowns     *)
(* come in the order in which the actions were enqueued.                   *)
(***************************************************************************)
C16_BoundedAndSerial ==
    /\ InProgress <= max_workers
    /\ max_workers = 1 =>
          \A i, j \in 1..Len(puts) :
             (i < j /\ presses[j].down = 1) =>
                /\ SequenceOver(i)
                /\ presses[i].down = 1 => presses[i].up = 1

(***************************************************************************)
(* C16 amended: at most input_threads key sequences are in progress; with  *)
(* input_threads = 1 sequences never overlap and the keyDowns come in the  *)
(* order in which the actions were enqueued: before the next keyDown the   *)
(* sequence of every earlier action is over, with its keyUp and its delay  *)
(* unless one of its presses raised.                                       *)
(***************************************************************************)
C16_BoundedAndNoOverlap ==
    /\ InProgress <= max_workers
    /\ max_workers = 1 =>
          \A i, j \in 1..Len(puts) :
             (i < j /\ presses[j].down = 1) =>
                /\ SequenceOver(i)
                /\ presses[i].down = 1 => (presses[i].up = 1 \/ RaisedFor(i))
                /\ presses[i].down = 0 => RaisedFor(i)

\* one worker: action 1 was pressed and released, action 2 is being held
C16_Witness ==
    /\ max_workers = 1
    /\ Len(puts) = 2
    /\ presses[1] = [down |-> 1, up |-> 1]
    /\ threads[1].pc = "sleep_duration"
    /\ threads[1].item = 2
    /\ InProgress = 1

\* a step that changes the switch changes nothing else of the program
ToggleChangesOnlyTheFlag ==
    [][ twitchplays_commands_enabled' # twitchplays_commands_enabled =>
           UNCHANGED <<input_queue, work_queue, shutdown, idle_semaphore, threads,
                       futures, pcLoop, message, ret, puts, gets, presses>> ]_vars

RejectedIds ==
    {i \in 1..Len(puts) : i > Len(futures) /\ ~(i = Len(puts) /\ pcLoop = "submit")}

HasUpper(k) == \E i \in 1..Len(k), j \in 1..26 : k[i] = UpperCase[j]

\* the message spells the key, whatever the case of its letters
Spells(m, k) == Len(m) = Len(k) /\ \A i \in 1..Len(k) : SameLetter(m[i], k[i])

(***************************************************************************)
(* C19: with case_insensitive true only the message is case-folded; it is  *)
(* compared with the table keys as they were configured, so an entry whose *)
(* key contains an upper-case letter ('COIN') is matched by no message,    *)
(* whatever its case, and its action is never queued.                      *)
(***************************************************************************)
C19_OnlyMessageNormalized ==
    case_insensitive =>
       /\ \A k \in DOMAIN config.keys :
             HasUpper(k) =>
                /\ \A i \in 1..Len(puts) : puts[i].key # config.keys[k]
                /\ (LookupDone /\ Spells(message, k)) => ~Matched
       /\ (LookupDone /\ Matched) => casefold(message) \in DOMAIN config.keys

\* "COIN" itself has just missed the entry keyed 'COIN'
C19_Witness ==
    /\ case_insensitive
    /\ config.keys = test_keys_fbneo
    /\ message = <<"C","O","I","N">>
    /\ pcLoop = "handle_commands"
    /\ ret = "False"

(***************************************************************************)
(* C20: a press that fails consumes its action.  When keyDown raises the   *)
(* action is already out of the queue, it is not put back and not          *)
(* dequeued or pressed again, keyUp is not called for it, and the worker   *)
(* skips the hold and the delay; when keyUp raises the delay is skipped.   *)
(***************************************************************************)
C20_FailedPressConsumesAction ==
    /\ \A i \in 1..Len(puts) :
          presses[i].down <= 1 /\ presses[i].up <= presses[i].down
    /\ \A w \in Slots :
          threads[w].pc \in {"sleep_duration", "keyUp", "sleep_delay"} =>
             presses[threads[w].item].down = 1
    /\ \A t \in FailedTasks :
          \E j \in 1..Len(gets) :
             /\ gets[j].task = t
             /\ gets[j].id \notin QueuedIds
             /\ \A k \in 1..Len(gets) : gets[k].id = gets[j].id => k = j
             /\ presses[gets[j].id].up = 0
             /\ \A w \in Slots :
                   threads[w].item = gets[j].id =>
                      (threads[w].pc = "release" /\ threads[w].task = t)
    /\ \A w \in Slots :
          (threads[w].pc = "release" /\ futures[threads[w].task] = "EXCEPTION") =>
             threads[w].slept = IF presses[threads[w].item].down = 0
                                THEN 0
                                ELSE keypress_duration

\* keyDown raised for action 1, which is gone; action 2 was then pressed
C20_Witness ==
    /\ Quiescent
    /\ futures = <<"EXCEPTION", "FINISHED">>
    /\ presses = <<[down |-> 0, up |-> 0], [down |-> 1, up |-> 1]>>
    /\ input_queue = <<>>
    /\ Len(gets) = 2

====
